---- MODULE Spec2Model ----
(***************************************************************************)
(* Valthrun controller: the overlay session (controller/src/main.rs).      *)
(*                                                                         *)
(* Spec        main_overlay: session start-up followed by the overlay      *)
(*             main loop with its two callbacks (pre-update, update).      *)
(* SpecResolve CS2RuntimeOffsets::resolve over bounded schema catalogs.    *)
(* SpecCache   the two EntryCache instances of Application and their       *)
(*             factories.                                                  *)
(***************************************************************************)
EXTENDS Integers, Sequences, FiniteSets, TLC

(***************************************************************************)
(* Option<T>: None is the empty sequence, Some(x) the one-element sequence *)
(***************************************************************************)
None == <<>>
Some(x) == <<x>>
IsSome(o) == o # <<>>
Unwrap(o) == o[1]

(***************************************************************************)
(* Program constants                                                       *)
(***************************************************************************)
\* main.rs:493  `if update_fail_count >= 10`
FailThreshold == 10
\* main.rs:497  `Duration::from_millis(1000)`
CooldownMs == 1000
\* main.rs:438-445  the enhancements vector: PlayerESP, BombInfo, TriggerBot, AntiAimPunsh
NumEnhancements == 4
\* main.rs:438-445  the enhancements in their order of registration
Enhancements == <<"PlayerESP", "BombInfo", "TriggerBot", "AntiAimPunsh">>

(***************************************************************************)
(* Bounds of the model                                                     *)
(***************************************************************************)
\* Instant::elapsed() of the cool-down's Instant is observed up to this many ms
MaxElapsed == 2000
\* the clock advances by this many milliseconds at a time
ClockStep == 500
\* the read calls that the accessor serves during one Application::update call
MaxCallReads == 2
\* the accessor's read-call counter is followed up to this value
MaxTotalReads == 4
\* the frame counter in the foreign Globals is followed modulo this
TickWrap == 3

VARIABLES
    pc,                 \* position of main_overlay
    startup_log,        \* the start-up steps that returned Ok, in order
    main_result,        \* return value of main_overlay: None while it runs
    update_fail_count,  \* main.rs:465
    update_timeout,     \* main.rs:466  Option<(Instant, Duration)>; the Instant
                        \*   is held as the milliseconds elapsed since it was taken
    settings_dirty,     \* Application::settings_dirty
    settings_visible,   \* Application::settings_visible
    fails_in_row,       \* observer: failed Application::update calls in a row
                        \*   (since the last success or cool-down entry)
    fails_counted,      \* observer: failed Application::update calls since the
                        \*   session start or the last cool-down entry
    last_frame,         \* observer: what the last update callback did
    schema,             \* CS2RuntimeOffsets::schema, the dumped catalog
    offset,             \* the RuntimeOffset of the last resolve call (None: no call yet)
    resolved,           \* the result of the last resolve call
    class_name_cache,   \* Application::class_name_cache: vtable -> Option<entry>
    model_cache,        \* Application::model_cache: model address -> Option<entry>
    made,               \* observer: per cache and key, the factory calls that returned Ok
    lookups,            \* observer: parity of the number of get_or_insert calls
    last_lookup,        \* observer: what the last get_or_insert call did
    app_pc,             \* the method of Application that the frame runs next
    cs2_globals,        \* Application::cs2_globals
    total_read_calls,   \* cs2.ke_interface.total_read_calls()
    last_total_read_calls, \* Application::last_total_read_calls
    frame_read_calls,   \* Application::frame_read_calls
    foreign_tick,       \* the Globals of the foreign process (its frame counter)
    last_update,        \* observer: what the last Application::update call did
    last_pre_update,    \* observer: what the last Application::pre_update call did
    decode_in,          \* the vtable and the foreign memory of a class-name decode
    decode_out,         \* what the decode did (None: not run yet)
    ptr_in,             \* a PtrCStr and the foreign strings
    ptr_read,           \* the result of PtrCStr::read_string (None: not called yet)
    ptr_try_read        \* the result of PtrCStr::try_read_string (None: not called yet)

loopVars == <<pc, startup_log, main_result, update_fail_count, update_timeout,
              settings_dirty, settings_visible, fails_in_row, fails_counted, last_frame>>
resolveVars == <<schema, offset, resolved>>
cacheVars == <<class_name_cache, model_cache, made, lookups, last_lookup>>
appVars == <<app_pc, cs2_globals, total_read_calls, last_total_read_calls,
             frame_read_calls, foreign_tick, last_update, last_pre_update>>
decodeVars == <<decode_in, decode_out>>
ptrVars == <<ptr_in, ptr_read, ptr_try_read>>
vars == <<loopVars, resolveVars, cacheVars, appVars, decodeVars, ptrVars>>

Min(a, b) == IF a <= b THEN a ELSE b

(***************************************************************************)
(* main_overlay: start-up (main.rs:354-464)                                *)
(***************************************************************************)
\* the fallible start-up calls of main_overlay, in program order
StartupSteps ==
    << "version_info", "load_app_settings", "CS2Handle_create", "read_build_info",
       "resolve_offsets", "dump_schema", "overlay_init" >>

StepIndex(step) == CHOOSE i \in 1..Len(StartupSteps) : StartupSteps[i] = step

\* where main_overlay continues after `step` returned Ok
AfterStep(step) ==
    IF StepIndex(step) = Len(StartupSteps)
        THEN "pre_update"
        ELSE StartupSteps[StepIndex(step) + 1]

\* `step(..)?`: Ok continues with the next statement, Err returns it from main_overlay
TryStep(step, ok) ==
    /\ pc = step
    /\ IF ok
          THEN /\ pc' = AfterStep(step)
               /\ startup_log' = Append(startup_log, step)
               /\ main_result' = main_result
          ELSE /\ pc' = "returned"
               /\ startup_log' = startup_log
               /\ main_result' = Some([ok |-> FALSE, err |-> step])
    /\ UNCHANGED <<update_fail_count, update_timeout, settings_dirty, settings_visible,
                   fails_in_row, fails_counted, last_frame>>
    /\ UNCHANGED <<resolveVars, cacheVars, appVars, decodeVars, ptrVars>>

\* main.rs:355
version_info == \E ok \in BOOLEAN : TryStep("version_info", ok)
\* main.rs:358
load_app_settings == \E ok \in BOOLEAN : TryStep("load_app_settings", ok)
\* main.rs:360
CS2Handle_create == \E ok \in BOOLEAN : TryStep("CS2Handle_create", ok)
\* main.rs:361-364
read_build_info == \E ok \in BOOLEAN : TryStep("read_build_info", ok)
\* main.rs:372-375
resolve_offsets == \E ok \in BOOLEAN : TryStep("resolve_offsets", ok)
\* mutant of setup_runtime_offset_provider: a failed dump is not propagated
setup_runtime_offset_provider_IgnoreErr ==
    /\ pc = "dump_schema"
    /\ pc' = AfterStep("dump_schema")
    /\ UNCHANGED <<startup_log, main_result, update_fail_count, update_timeout,
                   settings_dirty, settings_visible, fails_in_row, fails_counted,
                   last_frame>>
    /\ UNCHANGED <<resolveVars, cacheVars, appVars, decodeVars, ptrVars>>

\* main.rs:377 and 344-352: dump_schema(..)? then install the provider
setup_runtime_offset_provider == \E ok \in BOOLEAN : TryStep("dump_schema", ok)
\* main.rs:459; on Ok the counters of main.rs:465-466 are set and the loop starts
overlay_init == \E ok \in BOOLEAN : TryStep("overlay_init", ok)

(***************************************************************************)
(* Application (main.rs:96-176)                                            *)
(***************************************************************************)
\* mutant of Application_pre_update: the flag stays set when the save fails
Application_pre_update_KeepOnFailure(dirty, save_ok) ==
    [ result         |-> "Ok",
      settings_dirty |-> dirty /\ ~save_ok,
      save_attempted |-> dirty,
      saved          |-> dirty /\ save_ok ]

\* Application::pre_update, main.rs:105-119.  A dirty flag is cleared before the
\* save is attempted; a failed save is only logged.  The result is always Ok.
Application_pre_update(dirty, save_ok) ==
    [ result         |-> "Ok",
      settings_dirty |-> FALSE,
      save_attempted |-> dirty,
      saved          |-> dirty /\ save_ok ]

\* What the foreign process and the user make of one Application::update call:
\*   settings_err   index of the enhancement whose update_settings fails (0: none)
\*   changed        index of an enhancement whose update_settings returns true (0: none)
\*   key            the settings key is pressed in this frame
\*   view_ok        update_view_matrix succeeds
\*   globals_ok     the Globals read succeeds
\*   update_err     index of the enhancement whose update fails (0: none)
\* Inputs that the call never looks at (it returned before) are held at their
\* defaults, so that each run of the call is listed once.
UpdateInputs ==
    { in \in [ settings_err : 0..NumEnhancements, changed : 0..NumEnhancements,
               key : BOOLEAN, view_ok : BOOLEAN, globals_ok : BOOLEAN,
               update_err : 0..NumEnhancements ] :
        /\ in.settings_err # 0 =>
              /\ in.changed < in.settings_err
              /\ ~in.key /\ in.view_ok
        /\ ~in.view_ok => in.globals_ok
        /\ (in.settings_err # 0 \/ ~in.view_ok \/ ~in.globals_ok) => in.update_err = 0 }

\* Application::update, main.rs:121-176
Application_update(dirty, visible, in) ==
    LET \* 124-129: settings_dirty is set by an enhancement that ran before the failing one
        dirty1 == dirty \/ (in.changed # 0 /\ (in.settings_err = 0 \/ in.changed < in.settings_err))
        \* 133-141
        visible2 == IF in.key THEN ~visible ELSE visible
        dirty2 == dirty1 \/ (in.key /\ ~visible2)
    IN  IF in.settings_err # 0
            THEN [ result |-> "Err", settings_dirty |-> dirty1, settings_visible |-> visible ]
        ELSE IF ~in.view_ok \/ ~in.globals_ok \/ in.update_err # 0
            THEN [ result |-> "Err", settings_dirty |-> dirty2, settings_visible |-> visible2 ]
        ELSE [ result |-> "Ok", settings_dirty |-> dirty2, settings_visible |-> visible2 ]

(***************************************************************************)
(* u64 addresses, held as 8 bytes, least significant first                 *)
(***************************************************************************)
\* n as `len` little-endian bytes
RECURSIVE ToLE(_, _)
ToLE(n, len) == IF len = 0 THEN <<>> ELSE <<n % 256>> \o ToLE(n \div 256, len - 1)

\* a small number as u64
u64(n) == ToLE(n, 8)

RECURSIVE AddLE(_, _, _)
AddLE(a, b, carry) ==
    IF a = <<>> THEN <<>>
    ELSE LET t == Head(a) + Head(b) + carry
         IN  <<t % 256>> \o AddLE(Tail(a), Tail(b), t \div 256)

\* u64::wrapping_add: the carry out of the top byte is dropped
wrapping_add(a, b) == AddLE(a, b, 0)

\* mutant of i32_from_le_bytes_as_u64: the four bytes are taken as unsigned
i32_from_le_bytes_as_u64_ZeroExtend(b) == b \o <<0, 0, 0, 0>>

\* `i32::from_le_bytes(b) as u64`: the sign bit is extended into the upper half
i32_from_le_bytes_as_u64(b) ==
    b \o (IF b[4] >= 128 THEN <<255, 255, 255, 255>> ELSE <<0, 0, 0, 0>>)

\* a < b as unsigned numbers
RECURSIVE LessLE(_, _)
LessLE(a, b) ==
    IF a = <<>> THEN FALSE
    ELSE IF a[Len(a)] # b[Len(b)] THEN a[Len(a)] < b[Len(b)]
    ELSE LessLE(SubSeq(a, 1, Len(a) - 1), SubSeq(b, 1, Len(b) - 1))

(***************************************************************************)
(* The foreign process, as one lookup sees it                              *)
(***************************************************************************)
\* the mapped range of client.dll: 0x7FF810000000 .. 0x7FF811000000
ClientBase == <<0, 0, 0, 16, 248, 127, 0, 0>>
ClientEnd == <<0, 0, 0, 17, 248, 127, 0, 0>>

\* CS2Handle::module_address(Module::Client, address): the offset into the module
\* when the address lies in its mapped range
module_address(address) ==
    IF ~LessLE(address, ClientBase) /\ LessLE(address, ClientEnd)
        THEN Some(address)
        ELSE None

\* the vtables and model addresses that entities show
VTables == { u64(4096), u64(8192) }
Models == { u64(20480), u64(24576) }

\* addresses of a GetClassSchema routine: in client.dll (0x7FF810001000), at the
\* top of the address space (0xFFFFFFFFFFFFFFF0), and 0
FnAddrs == { <<0, 16, 0, 16, 248, 127, 0, 0>>,
             <<240, 255, 255, 255, 255, 255, 255, 255>>,
             u64(0) }

\* bytes 0..8 of the routine: push rbx; sub rsp, 20h; mov rbx, rcx
AsmPrefix == <<64, 83, 72, 131, 236, 32, 72, 139, 217>>
\* bytes 9..11: 48 8D 15 (the expected lea) and three near misses
AsmOpcodes == { <<72, 141, 21>>, <<73, 141, 21>>, <<72, 139, 21>>, <<72, 141, 13>> }
\* bytes 12..15: the displacements 0x20, -0x2000, i32::MIN, i32::MAX
AsmDisplacements == { <<32, 0, 0, 0>>, <<0, 224, 255, 255>>, <<0, 0, 0, 128>>,
                      <<255, 255, 255, 127>> }
AsmBuffers == { AsmPrefix \o op \o disp : op \in AsmOpcodes, disp \in AsmDisplacements }

ClassNameStrings == { "C_CSPlayerPawn", "CCSPlayerController" }
CS2Models == { "model_ct", "model_t" }

Option(S) == {None} \cup { Some(x) : x \in S }

\* what the reads of one class-name decode return; None is a read fault
\*   fn    reference_schema::<u64>(&[vtable + 0x00])
\*   asm   read_slice(&[fn_get_class_schema], &mut asm_buffer)
\*   name  read_string(&[class_schema + 0x08, 0], Some(32))
ClassNameViews == [ fn : Option(FnAddrs), asm : Option(AsmBuffers), name : Option(ClassNameStrings) ]

\* what the reads of one model load return; None is a read fault
\*   name   read_string(&[model + 0x08, 0], Some(32))
\*   model  CS2Model::read(&cs2, model)
ModelViews == [ name : Option({"characters/models/ctm_sas.vmdl"}), model : Option(CS2Models) ]

(***************************************************************************)
(* The factories of Application's caches (main.rs:388-435)                 *)
(***************************************************************************)
\* a factory's result: value is meaningful when ok; reads counts the read calls made
Produced(v, n) == [ ok |-> TRUE, value |-> v, reads |-> n ]
Failed(v, n) == [ ok |-> FALSE, value |-> v, reads |-> n ]

\* byte i of a Rust array, counted from 0
At(buffer, i) == buffer[i + 1]

\* mutant of class_name_factory: a fault of the instruction read counts as "no name"
class_name_factory_FaultIsNone(vtable, view) ==
    IF ~IsSome(view.fn) THEN Failed(None, 1)
    ELSE IF ~IsSome(view.asm) THEN Produced(None, 2)
    ELSE
        LET fn_get_class_schema == Unwrap(view.fn)
            asm_buffer == Unwrap(view.asm)
        IN  IF At(asm_buffer, 9) # 72 \/ At(asm_buffer, 10) # 141 \/ At(asm_buffer, 11) # 21
                THEN Produced(None, 2)
            ELSE
                LET schema_offset == i32_from_le_bytes_as_u64(SubSeq(asm_buffer, 13, 16))
                    class_schema ==
                        wrapping_add(wrapping_add(fn_get_class_schema, schema_offset), u64(16))
                IN  IF ~IsSome(module_address(class_schema))
                        THEN Produced(None, 2)
                    ELSE IF ~IsSome(view.name) THEN Failed(None, 3)
                    ELSE Produced(Some(Unwrap(view.name)), 3)

\* what one run of the class-name decode did: class_schema is the descriptor
\* address when it was computed, name_read the address of the name-string read
\* when it was issued
Decoded(ok, value, reads, class_schema, name_read) ==
    [ ok |-> ok, value |-> value, reads |-> reads,
      class_schema |-> class_schema, name_read |-> name_read ]

\* main.rs:418-421: the descriptor address that the lea of GetClassSchema names
class_schema_address(fn_get_class_schema, asm_buffer) ==
    LET schema_offset == i32_from_le_bytes_as_u64(SubSeq(asm_buffer, 13, 16))
    IN  wrapping_add(wrapping_add(fn_get_class_schema, schema_offset), u64(16))

\* mutant of class_name_decode: an unexpected instruction pattern is an error
class_name_decode_MismatchIsErr(vtable, view) ==
    IF ~IsSome(view.fn) THEN Decoded(FALSE, None, 1, None, None)
    ELSE IF ~IsSome(view.asm) THEN Decoded(FALSE, None, 2, None, None)
    ELSE
        LET fn_get_class_schema == Unwrap(view.fn)
            asm_buffer == Unwrap(view.asm)
        IN  IF At(asm_buffer, 9) # 72 \/ At(asm_buffer, 10) # 141 \/ At(asm_buffer, 11) # 21
                THEN Decoded(FALSE, None, 2, None, None)
            ELSE
                LET class_schema == class_schema_address(fn_get_class_schema, asm_buffer)
                IN  IF ~IsSome(module_address(class_schema))
                        THEN Decoded(TRUE, None, 2, Some(class_schema), None)
                    ELSE LET name_read == Some(wrapping_add(class_schema, u64(8)))
                         IN  IF ~IsSome(view.name)
                                 THEN Decoded(FALSE, None, 3, Some(class_schema), name_read)
                             ELSE Decoded(TRUE, Some(Unwrap(view.name)), 3,
                                          Some(class_schema), name_read)

\* mutant of class_name_decode: the descriptor address is used as decoded
class_name_decode_NoRangeCheck(vtable, view) ==
    IF ~IsSome(view.fn) THEN Decoded(FALSE, None, 1, None, None)
    ELSE IF ~IsSome(view.asm) THEN Decoded(FALSE, None, 2, None, None)
    ELSE
        LET fn_get_class_schema == Unwrap(view.fn)
            asm_buffer == Unwrap(view.asm)
        IN  IF At(asm_buffer, 9) # 72 \/ At(asm_buffer, 10) # 141 \/ At(asm_buffer, 11) # 21
                THEN Decoded(TRUE, None, 2, None, None)
            ELSE
                LET class_schema == class_schema_address(fn_get_class_schema, asm_buffer)
                    name_read == Some(wrapping_add(class_schema, u64(8)))
                IN  IF ~IsSome(view.name)
                        THEN Decoded(FALSE, None, 3, Some(class_schema), name_read)
                    ELSE Decoded(TRUE, Some(Unwrap(view.name)), 3,
                                 Some(class_schema), name_read)

\* the body of the class_name_cache factory, main.rs:403-434.  The address of the
\* name read is class_schema + 0x08, which cannot overflow inside a mapped module.
class_name_decode(vtable, view) ==
    IF ~IsSome(view.fn) THEN Decoded(FALSE, None, 1, None, None)
    ELSE IF ~IsSome(view.asm) THEN Decoded(FALSE, None, 2, None, None)
    ELSE
        LET fn_get_class_schema == Unwrap(view.fn)
            asm_buffer == Unwrap(view.asm)
        IN  IF At(asm_buffer, 9) # 72 \/ At(asm_buffer, 10) # 141 \/ At(asm_buffer, 11) # 21
                THEN Decoded(TRUE, None, 2, None, None)
            ELSE
                LET class_schema == class_schema_address(fn_get_class_schema, asm_buffer)
                IN  IF ~IsSome(module_address(class_schema))
                        THEN Decoded(TRUE, None, 2, Some(class_schema), None)
                    ELSE LET name_read == Some(wrapping_add(class_schema, u64(8)))
                         IN  IF ~IsSome(view.name)
                                 THEN Decoded(FALSE, None, 3, Some(class_schema), name_read)
                             ELSE Decoded(TRUE, Some(Unwrap(view.name)), 3,
                                          Some(class_schema), name_read)

\* the class_name_cache factory, main.rs:401-435: what the cache sees of the decode
class_name_factory(vtable, view) ==
    LET d == class_name_decode(vtable, view)
    IN  IF d.ok THEN Produced(d.value, d.reads) ELSE Failed(d.value, d.reads)

\* the model_cache factory, main.rs:390-399
model_factory(model, view) ==
    IF ~IsSome(view.name) THEN Failed("", 1)
    ELSE IF ~IsSome(view.model) THEN Failed("", 2)
    ELSE Produced(Unwrap(view.model), 2)

\* the i-th read call of a class-name decode faults
ClassNameReadFaults(view, i) ==
    \/ i = 1 /\ ~IsSome(view.fn)
    \/ i = 2 /\ ~IsSome(view.asm)
    \/ i = 3 /\ ~IsSome(view.name)

\* the i-th read call of a model load faults
ModelReadFaults(view, i) ==
    \/ i = 1 /\ ~IsSome(view.name)
    \/ i = 2 /\ ~IsSome(view.model)

(***************************************************************************)
(* EntryCache<K, V> (controller/src/cache.rs)                              *)
(***************************************************************************)
\* mutant of EntryCache_get_or_insert: the factory runs on a hit as well
EntryCache_get_or_insert_Recompute(cache, key, produced) ==
    IF produced.ok
        THEN [ cache |-> [cache EXCEPT ![key] = Some(produced.value)], ok |-> TRUE,
               value |-> produced.value, invoked |-> TRUE, reads |-> produced.reads ]
    ELSE IF IsSome(cache[key])
        THEN [ cache |-> cache, ok |-> TRUE, value |-> Unwrap(cache[key]),
               invoked |-> TRUE, reads |-> produced.reads ]
    ELSE [ cache |-> cache, ok |-> FALSE, value |-> produced.value,
           invoked |-> TRUE, reads |-> produced.reads ]

\* get_or_insert(key): a present key returns its value and the factory is not run;
\* an absent key runs the factory once, its Ok value is inserted and returned, its
\* error is returned and the cache is left as it was.  `produced` is what the
\* factory returns for this key if it is run now.
EntryCache_get_or_insert(cache, key, produced) ==
    IF IsSome(cache[key])
        THEN [ cache |-> cache, ok |-> TRUE, value |-> Unwrap(cache[key]),
               invoked |-> FALSE, reads |-> 0 ]
    ELSE IF produced.ok
        THEN [ cache |-> [cache EXCEPT ![key] = Some(produced.value)], ok |-> TRUE,
               value |-> produced.value, invoked |-> TRUE, reads |-> produced.reads ]
    ELSE [ cache |-> cache, ok |-> FALSE, value |-> produced.value,
           invoked |-> TRUE, reads |-> produced.reads ]

\* what the observers keep of a get_or_insert call
Looked(name, key, r, faulted) ==
    /\ made' = [made EXCEPT ![name][key] = @ + (IF r.invoked /\ r.ok THEN 1 ELSE 0)]
    /\ lookups' = 1 - lookups
    /\ last_lookup' = Some([ cache |-> name, key |-> key, ok |-> r.ok, value |-> r.value,
                             invoked |-> r.invoked, reads |-> r.reads,
                             faulted |-> faulted ])

\* class_name_cache.get_or_insert(vtable), with the factory of main.rs:401-435
class_name_cache_get_or_insert ==
    /\ \E vtable \in VTables, view \in ClassNameViews :
          LET r == EntryCache_get_or_insert(class_name_cache, vtable,
                                            class_name_factory(vtable, view))
          IN  /\ class_name_cache' = r.cache
              /\ Looked("class_name", vtable, r,
                        r.invoked /\ \E i \in 1..r.reads : ClassNameReadFaults(view, i))
    /\ UNCHANGED <<model_cache, loopVars, resolveVars, appVars, decodeVars, ptrVars>>

\* model_cache.get_or_insert(model), with the factory of main.rs:388-400
model_cache_get_or_insert ==
    /\ \E model \in Models, view \in ModelViews :
          LET r == EntryCache_get_or_insert(model_cache, model, model_factory(model, view))
          IN  /\ model_cache' = r.cache
              /\ Looked("model", model, r,
                        r.invoked /\ \E i \in 1..r.reads : ModelReadFaults(view, i))
    /\ UNCHANGED <<class_name_cache, loopVars, resolveVars, appVars, decodeVars, ptrVars>>

\* EntryCache::new: both caches start empty
InitCache ==
    /\ class_name_cache = [ k \in VTables |-> None ]
    /\ model_cache = [ k \in Models |-> None ]
    /\ made = [ name \in {"class_name", "model"} |->
                  [ k \in (IF name = "model" THEN Models ELSE VTables) |-> 0 ] ]
    /\ lookups = 0
    /\ last_lookup = None

(***************************************************************************)
(* main_overlay: the overlay main loop (main.rs:465-508)                   *)
(***************************************************************************)
\* mutant of TimeoutElapsed: the comparison is turned around
TimeoutElapsed_Inverted(timeout) == timeout[1] < timeout[2]

\* mutant of TimeoutElapsed: the cool-down ends when the target is reached
TimeoutElapsed_AtTarget(timeout) == timeout[1] >= timeout[2]

\* main.rs:484  `timeout.elapsed() > *target`
TimeoutElapsed(timeout) == timeout[1] > timeout[2]

\* main.rs:483-490: the cool-down check that opens the update callback.
\*   skip: the callback returns true without updating; timeout: the new update_timeout
CooldownCheck(timeout) ==
    IF IsSome(timeout)
        THEN IF TimeoutElapsed(Unwrap(timeout))
                THEN [ skip |-> FALSE, cleared |-> TRUE, timeout |-> None ]
                ELSE [ skip |-> TRUE, cleared |-> FALSE, timeout |-> timeout ]
        ELSE [ skip |-> FALSE, cleared |-> FALSE, timeout |-> timeout ]

\* mutant of AfterUpdate: the failure being handled is counted before the test
AfterUpdate_CountFirst(result, count, timeout) ==
    IF result = "Err"
        THEN IF count + 1 >= FailThreshold
                THEN [ count |-> 0, timeout |-> Some(<<0, CooldownMs>>),
                       cooldown |-> TRUE, rendered |-> FALSE, ret |-> TRUE ]
                ELSE [ count |-> count + 1, timeout |-> timeout,
                       cooldown |-> FALSE, rendered |-> TRUE, ret |-> TRUE ]
        ELSE [ count |-> count, timeout |-> timeout,
               cooldown |-> FALSE, rendered |-> TRUE, ret |-> TRUE ]

\* mutant of AfterUpdate: entering the cool-down does not reset the counter
AfterUpdate_NoReset(result, count, timeout) ==
    IF result = "Err"
        THEN IF count >= FailThreshold
                THEN [ count |-> count, timeout |-> Some(<<0, CooldownMs>>),
                       cooldown |-> TRUE, rendered |-> FALSE, ret |-> TRUE ]
                ELSE [ count |-> count + 1, timeout |-> timeout,
                       cooldown |-> FALSE, rendered |-> TRUE, ret |-> TRUE ]
        ELSE [ count |-> count, timeout |-> timeout,
               cooldown |-> FALSE, rendered |-> TRUE, ret |-> TRUE ]

\* mutant of AfterUpdate: the frame that starts the cool-down goes on to render
AfterUpdate_RenderOnCooldown(result, count, timeout) ==
    IF result = "Err"
        THEN IF count >= FailThreshold
                THEN [ count |-> 0, timeout |-> Some(<<0, CooldownMs>>),
                       cooldown |-> TRUE, rendered |-> TRUE, ret |-> TRUE ]
                ELSE [ count |-> count + 1, timeout |-> timeout,
                       cooldown |-> FALSE, rendered |-> TRUE, ret |-> TRUE ]
        ELSE [ count |-> count, timeout |-> timeout,
               cooldown |-> FALSE, rendered |-> TRUE, ret |-> TRUE ]

\* mutant of AfterUpdate: the frame that starts the cool-down stops the loop
AfterUpdate_StopOnCooldown(result, count, timeout) ==
    IF result = "Err"
        THEN IF count >= FailThreshold
                THEN [ count |-> 0, timeout |-> Some(<<0, CooldownMs>>),
                       cooldown |-> TRUE, rendered |-> FALSE, ret |-> FALSE ]
                ELSE [ count |-> count + 1, timeout |-> timeout,
                       cooldown |-> FALSE, rendered |-> TRUE, ret |-> TRUE ]
        ELSE [ count |-> count, timeout |-> timeout,
               cooldown |-> FALSE, rendered |-> TRUE, ret |-> TRUE ]

\* main.rs:492-506: what the update callback does with the result of app.update(ui)
AfterUpdate(result, count, timeout) ==
    IF result = "Err"
        THEN IF count >= FailThreshold
                THEN [ count |-> 0, timeout |-> Some(<<0, CooldownMs>>),
                       cooldown |-> TRUE, rendered |-> FALSE, ret |-> TRUE ]
                ELSE [ count |-> count + 1, timeout |-> timeout,
                       cooldown |-> FALSE, rendered |-> TRUE, ret |-> TRUE ]
        ELSE [ count |-> count, timeout |-> timeout,
               cooldown |-> FALSE, rendered |-> TRUE, ret |-> TRUE ]

\* overlay.main_loop: the loop runs a callback and goes on while it returns true
LoopAfter(ret, next) ==
    /\ pc' = IF ret THEN next ELSE "returned"
    /\ main_result' = IF ret THEN main_result ELSE Some([ok |-> TRUE, err |-> ""])

\* main.rs:470-478: the pre-update callback
pre_update_callback ==
    /\ pc = "pre_update"
    /\ \E save_ok \in BOOLEAN :
          LET r == Application_pre_update(settings_dirty, save_ok)
          IN  /\ settings_dirty' = r.settings_dirty
              /\ LoopAfter(r.result = "Ok", "update")
    /\ UNCHANGED <<startup_log, update_fail_count, update_timeout, settings_visible,
                   fails_in_row, fails_counted, last_frame>>
    /\ UNCHANGED <<resolveVars, cacheVars, appVars, decodeVars, ptrVars>>

\* main.rs:480-507: the update callback
update_callback ==
    /\ pc = "update"
    /\ LET c == CooldownCheck(update_timeout)
       IN  IF c.skip
              THEN \* 486-489: on timeout, not updating
                   /\ last_frame' = Some([ updated |-> FALSE, result |-> "none",
                                           cleared |-> FALSE, cooldown |-> FALSE,
                                           rendered |-> FALSE, ret |-> TRUE,
                                           count_at_update |-> update_fail_count ])
                   /\ LoopAfter(TRUE, "pre_update")
                   /\ UNCHANGED <<update_fail_count, update_timeout, settings_dirty,
                                  settings_visible, fails_in_row, fails_counted>>
              ELSE \E in \in UpdateInputs :
                     LET u == Application_update(settings_dirty, settings_visible, in)
                         a == AfterUpdate(u.result, update_fail_count, c.timeout)
                     IN  /\ settings_dirty' = u.settings_dirty
                         /\ settings_visible' = u.settings_visible
                         /\ update_fail_count' = a.count
                         /\ update_timeout' = a.timeout
                         /\ fails_in_row' = IF u.result = "Ok" \/ a.cooldown
                                               THEN 0 ELSE fails_in_row + 1
                         /\ fails_counted' = IF a.cooldown THEN 0
                                             ELSE IF u.result = "Err" THEN fails_counted + 1
                                             ELSE fails_counted
                         /\ last_frame' = Some([ updated |-> TRUE, result |-> u.result,
                                                 cleared |-> c.cleared, cooldown |-> a.cooldown,
                                                 rendered |-> a.rendered, ret |-> a.ret,
                                                 count_at_update |-> update_fail_count ])
                         /\ LoopAfter(a.ret, "pre_update")
    /\ UNCHANGED startup_log
    /\ UNCHANGED <<resolveVars, cacheVars, appVars, decodeVars, ptrVars>>

\* The monotonic clock advances: the Instant of a set cool-down grows older.
Tick ==
    /\ pc \in {"pre_update", "update"}
    /\ IsSome(update_timeout)
    /\ Unwrap(update_timeout)[1] < MaxElapsed
    /\ update_timeout' = Some(<< Min(Unwrap(update_timeout)[1] + ClockStep, MaxElapsed),
                                 Unwrap(update_timeout)[2] >>)
    /\ UNCHANGED <<pc, startup_log, main_result, update_fail_count, settings_dirty,
                   settings_visible, fails_in_row, fails_counted, last_frame>>
    /\ UNCHANGED <<resolveVars, cacheVars, appVars, decodeVars, ptrVars>>

InitLoop ==
    /\ pc = StartupSteps[1]
    /\ startup_log = <<>>
    /\ main_result = None
    /\ update_fail_count = 0
    /\ update_timeout = None
    /\ settings_dirty = FALSE
    /\ settings_visible = FALSE
    /\ fails_in_row = 0
    /\ fails_counted = 0
    /\ last_frame = None

\* no catalog is looked up in the frame loop's specification
InitNoResolve ==
    /\ schema = <<>>
    /\ offset = None
    /\ resolved = None

\* Application { .. } of main.rs:377-453, the fields that Application's methods use,
\* and a foreign process whose Globals have not advanced yet
InitApp ==
    /\ app_pc = "pre_update"
    /\ cs2_globals = None
    /\ total_read_calls = 0
    /\ last_total_read_calls = 0
    /\ frame_read_calls = 0
    /\ foreign_tick = 0
    /\ last_update = None
    /\ last_pre_update = None

\* no class-name decode is followed
InitNoDecode ==
    /\ decode_in = None
    /\ decode_out = None

\* no PtrCStr is followed
InitNoPtr ==
    /\ ptr_in = None
    /\ ptr_read = None
    /\ ptr_try_read = None

Init ==
    /\ InitLoop
    /\ InitNoResolve
    /\ InitCache
    /\ InitApp
    /\ InitNoDecode
    /\ InitNoPtr

Next ==
    \/ version_info
    \/ load_app_settings
    \/ CS2Handle_create
    \/ read_build_info
    \/ resolve_offsets
    \/ setup_runtime_offset_provider
    \/ overlay_init
    \/ pre_update_callback
    \/ update_callback
    \/ Tick

Spec == Init /\ [][Next]_vars

\* The overlay keeps delivering frames and the monotonic clock keeps advancing.
SpecLive ==
    /\ Init
    /\ [][Next]_vars
    /\ WF_vars(pre_update_callback)
    /\ WF_vars(update_callback)
    /\ WF_vars(Tick)

(***************************************************************************)
(* CS2RuntimeOffsets (main.rs:319-342)                                     *)
(***************************************************************************)
\* the catalogs looked up hold at most this many scopes, classes and members in all
MaxNodes == 5

ScopeNames == {"client.dll", "engine2.dll"}
ClassNames == {"CBaseEntity", "CCSPlayerPawn"}
FieldNames == {"m_iHealth", "m_iArmor"}
\* 0x344, 0x348
Offsets == {836, 840}

\* the (module, class, member) triples asked for
RuntimeOffsets == [ module : ScopeNames, class : ClassNames, member : FieldNames ]

\* the member lists of a class with at most n members; field names are unique in a class
RECURSIVE MemberSeqs(_, _)
MemberSeqs(n, used) ==
    {<<>>} \cup
    ( IF n = 0 THEN {}
      ELSE UNION { { <<[field_name |-> f, offset |-> o]>> \o rest :
                        o \in Offsets, rest \in MemberSeqs(n - 1, used \cup {f}) } :
                   f \in FieldNames \ used } )

\* the scopes, classes and members of a list of classes, counted
RECURSIVE ClassNodes(_)
ClassNodes(classes) ==
    IF classes = <<>> THEN 0
    ELSE 1 + Len(Head(classes).offsets) + ClassNodes(Tail(classes))

\* the class lists of a scope with at most n classes and members in all
RECURSIVE ClassSeqs(_)
ClassSeqs(n) ==
    {<<>>} \cup
    ( IF n = 0 THEN {}
      ELSE UNION { { <<[class_name |-> c, offsets |-> ms]>> \o rest :
                        c \in ClassNames, rest \in ClassSeqs(n - 1 - Len(ms)) } :
                   ms \in MemberSeqs(n - 1, {}) } )

\* Vec<SchemaScope> with at most n scopes, classes and members in all
RECURSIVE Catalogs(_)
Catalogs(n) ==
    {<<>>} \cup
    ( IF n = 0 THEN {}
      ELSE UNION { { <<[schema_name |-> m, classes |-> cs]>> \o rest :
                        m \in ScopeNames, rest \in Catalogs(n - 1 - ClassNodes(cs)) } :
                   cs \in ClassSeqs(n - 1) } )

\* Iterator::find: the first element of seq among those at the indices `matching`
\* (the indices whose element satisfies the closure), if any
Find(seq, matching) ==
    IF matching # {}
        THEN Some(seq[CHOOSE i \in matching : \A j \in matching : i <= j])
        ELSE None

\* anyhow::Result<u64>
Ok(v) == [ ok |-> TRUE, value |-> v, err |-> "" ]
Err(msg) == [ ok |-> FALSE, value |-> 0, err |-> msg ]

\* mutant of CS2RuntimeOffsets_resolve: the class is looked for in every scope
CS2RuntimeOffsets_resolve_AnyScope(catalog, off) ==
    LET RECURSIVE Classes(_)
        Classes(i) == IF i > Len(catalog) THEN <<>>
                      ELSE catalog[i].classes \o Classes(i + 1)
        all == [ classes |-> Classes(1) ]
        s == Find(catalog, { i \in 1..Len(catalog) : catalog[i].schema_name = off.module })
    IN  IF ~IsSome(s) THEN Err("unknown module")
        ELSE LET c == Find(all.classes,
                           { i \in 1..Len(all.classes) :
                               off.class = all.classes[i].class_name })
             IN  IF ~IsSome(c) THEN Err("unknown class")
                 ELSE LET m == Find(Unwrap(c).offsets,
                                { i \in 1..Len(Unwrap(c).offsets) :
                                    Unwrap(c).offsets[i].field_name = off.member })
                      IN  IF ~IsSome(m) THEN Err("unknown class member")
                          ELSE Ok(Unwrap(m).offset)

\* mutant of CS2RuntimeOffsets_resolve: a class without the member yields offset 0
CS2RuntimeOffsets_resolve_DefaultZero(catalog, off) ==
    LET s == Find(catalog, { i \in 1..Len(catalog) : catalog[i].schema_name = off.module })
    IN  IF ~IsSome(s) THEN Err("unknown module")
        ELSE LET c == Find(Unwrap(s).classes,
                           { i \in 1..Len(Unwrap(s).classes) :
                               off.class = Unwrap(s).classes[i].class_name })
             IN  IF ~IsSome(c) THEN Err("unknown class")
                 ELSE LET m == Find(Unwrap(c).offsets,
                                { i \in 1..Len(Unwrap(c).offsets) :
                                    Unwrap(c).offsets[i].field_name = off.member })
                      IN  IF ~IsSome(m) THEN Ok(0)
                          ELSE Ok(Unwrap(m).offset)

\* CS2RuntimeOffsets::resolve, main.rs:324-341
CS2RuntimeOffsets_resolve(catalog, off) ==
    LET s == Find(catalog, { i \in 1..Len(catalog) : catalog[i].schema_name = off.module })
    IN  IF ~IsSome(s) THEN Err("unknown module")
        ELSE LET c == Find(Unwrap(s).classes,
                           { i \in 1..Len(Unwrap(s).classes) :
                               off.class = Unwrap(s).classes[i].class_name })
             IN  IF ~IsSome(c) THEN Err("unknown class")
                 ELSE LET m == Find(Unwrap(c).offsets,
                                { i \in 1..Len(Unwrap(c).offsets) :
                                    Unwrap(c).offsets[i].field_name = off.member })
                      IN  IF ~IsSome(m) THEN Err("unknown class member")
                          ELSE Ok(Unwrap(m).offset)

\* a call of resolve(&self, offset) on the installed provider
resolve ==
    /\ \E off \in RuntimeOffsets :
          /\ offset' = Some(off)
          /\ resolved' = Some(CS2RuntimeOffsets_resolve(schema, off))
    /\ schema' = schema
    /\ UNCHANGED <<loopVars, cacheVars, appVars, decodeVars, ptrVars>>

InitResolve ==
    /\ InitLoop
    /\ schema \in Catalogs(MaxNodes)
    /\ offset = None
    /\ resolved = None
    /\ InitCache
    /\ InitApp
    /\ InitNoDecode
    /\ InitNoPtr

NextResolve == resolve

SpecResolve == InitResolve /\ [][NextResolve]_vars

(***************************************************************************)
(* The caches on their own                                                 *)
(***************************************************************************)
NextCache ==
    \/ class_name_cache_get_or_insert
    \/ model_cache_get_or_insert

SpecCache == Init /\ [][NextCache]_vars

(***************************************************************************)
(* One class-name decode, over every vtable and every view of the foreign  *)
(* memory (main.rs:401-435)                                                *)
(***************************************************************************)
\* the factory closure is called with a vtable; the reads return what the view holds
run_class_name_decode ==
    /\ decode_out = None
    /\ decode_out' = Some(class_name_decode(decode_in.vtable, decode_in.view))
    /\ UNCHANGED <<decode_in, loopVars, resolveVars, cacheVars, appVars, ptrVars>>

InitDecode ==
    /\ InitLoop
    /\ InitNoResolve
    /\ InitCache
    /\ InitApp
    /\ decode_in \in [ vtable : VTables, view : ClassNameViews ]
    /\ decode_out = None
    /\ InitNoPtr

NextDecode == run_class_name_decode

SpecDecode == InitDecode /\ [][NextDecode]_vars

(***************************************************************************)
(* PCStrEx for PtrCStr (cs2/src/ptr.rs)                                    *)
(***************************************************************************)
\* the addresses a PtrCStr resolves to
PtrAddresses == { u64(0), u64(4096), u64(8192) }
PtrStrings == { "weapon_ak47", "" }

\* a PtrCStr and the foreign process:
\*   address   what self.address() returns; None is its error
\*   strings   what cs2.read_string(&[address], None) returns; None is a read fault
PtrInputs == [ address : Option(PtrAddresses), strings : [ PtrAddresses -> Option(PtrStrings) ] ]

\* anyhow::Result<T> of the two operations, with the string reads they issued
PtrOk(v, n) == [ ok |-> TRUE, value |-> v, reads |-> n ]
PtrErr(v, n) == [ ok |-> FALSE, value |-> v, reads |-> n ]

\* ptr.rs:11-13
PtrCStr_read_string(in) ==
    IF ~IsSome(in.address) THEN PtrErr("", 0)
    ELSE LET string == in.strings[Unwrap(in.address)]
         IN  IF IsSome(string) THEN PtrOk(Unwrap(string), 1) ELSE PtrErr("", 1)

\* mutant of PtrCStr_try_read_string: the address is read whatever it is
PtrCStr_try_read_string_NoNullCheck(in) ==
    IF ~IsSome(in.address) THEN PtrErr(None, 0)
    ELSE LET address == Unwrap(in.address)
             string == in.strings[address]
         IN  IF IsSome(string) THEN PtrOk(Some(Unwrap(string)), 1) ELSE PtrErr(None, 1)

\* ptr.rs:15-22
PtrCStr_try_read_string(in) ==
    IF ~IsSome(in.address) THEN PtrErr(None, 0)
    ELSE LET address == Unwrap(in.address)
             string == in.strings[address]
         IN  IF address = u64(0) THEN PtrOk(None, 0)
             ELSE IF IsSome(string) THEN PtrOk(Some(Unwrap(string)), 1)
             ELSE PtrErr(None, 1)

\* ptr.read_string(&cs2)
read_string ==
    /\ ptr_read = None
    /\ ptr_read' = Some(PtrCStr_read_string(ptr_in))
    /\ UNCHANGED <<ptr_in, ptr_try_read, loopVars, resolveVars, cacheVars, appVars, decodeVars>>

\* ptr.try_read_string(&cs2)
try_read_string ==
    /\ ptr_try_read = None
    /\ ptr_try_read' = Some(PtrCStr_try_read_string(ptr_in))
    /\ UNCHANGED <<ptr_in, ptr_read, loopVars, resolveVars, cacheVars, appVars, decodeVars>>

InitPtr ==
    /\ InitLoop
    /\ InitNoResolve
    /\ InitCache
    /\ InitApp
    /\ InitNoDecode
    /\ ptr_in \in PtrInputs
    /\ ptr_read = None
    /\ ptr_try_read = None

NextPtr ==
    \/ read_string
    \/ try_read_string

SpecPtr == InitPtr /\ [][NextPtr]_vars

(***************************************************************************)
(* Application, frame by frame (main.rs:105-176).  Spec follows the locals *)
(* of main_overlay and the two settings flags; the Globals, the            *)
(* enhancements and the read-call accounting of Application::update are    *)
(* followed here, with pre_update and update called in turn.               *)
(***************************************************************************)
\* mutant of globals_snapshot: a Globals value kept in cs2_globals is used again
globals_snapshot_Cached(cached, tick) ==
    IF IsSome(cached)
        THEN [ globals |-> Unwrap(cached), cs2_globals |-> cached ]
        ELSE [ globals |-> tick, cs2_globals |-> Some(tick) ]

\* main.rs:147-151: the Globals are read from the foreign process, whose frame
\* counter is `tick` now, and copied; Application::cs2_globals is not touched
globals_snapshot(cached, tick) == [ globals |-> tick, cs2_globals |-> cached ]

\* mutant of update_enhancements: the enhancements after a failing one are updated
update_enhancements_ContinueAfterError(globals, update_err) ==
    [ i \in 1..NumEnhancements |->
        [ enhancement |-> Enhancements[i], globals |-> globals, ok |-> i # update_err ] ]

\* main.rs:166-169: the enhancement updates of one call, in the order they ran;
\* update_err is the index of the enhancement whose update fails (0: none)
update_enhancements(globals, update_err) ==
    [ i \in 1..(IF update_err = 0 THEN NumEnhancements ELSE update_err) |->
        [ enhancement |-> Enhancements[i], globals |-> globals, ok |-> i # update_err ] ]

\* main.rs:171-173, with read_calls = ke_interface.total_read_calls()
read_call_accounting(read_calls, last_total) ==
    [ frame_read_calls |-> read_calls - last_total, last_total_read_calls |-> read_calls ]

\* app.pre_update(..), main.rs:105-119
call_pre_update ==
    /\ app_pc = "pre_update"
    /\ \E save_ok \in BOOLEAN :
          LET r == Application_pre_update(settings_dirty, save_ok)
          IN  /\ settings_dirty' = r.settings_dirty
              /\ last_pre_update' = Some([ result |-> r.result,
                                           save_attempted |-> r.save_attempted,
                                           saved |-> r.saved ])
    /\ app_pc' = "update"
    /\ UNCHANGED <<pc, startup_log, main_result, update_fail_count, update_timeout,
                   settings_visible, fails_in_row, fails_counted, last_frame>>
    /\ UNCHANGED <<cs2_globals, total_read_calls, last_total_read_calls, frame_read_calls,
                   foreign_tick, last_update>>
    /\ UNCHANGED <<resolveVars, cacheVars, decodeVars, ptrVars>>

\* app.update(ui), main.rs:121-176.  The foreign process has moved on by a frame;
\* the accessor serves `reads` read calls before the call returns, at least the
\* Globals read when the call comes that far.
call_update ==
    /\ app_pc = "update"
    /\ \E in \in UpdateInputs, reads \in 0..MaxCallReads :
          LET u == Application_update(settings_dirty, settings_visible, in)
              tick == (foreign_tick + 1) % TickWrap
              globals_reached == in.settings_err = 0 /\ in.view_ok
              globals_read == globals_reached /\ in.globals_ok
              g == globals_snapshot(cs2_globals, tick)
              updated == IF globals_read THEN update_enhancements(g.globals, in.update_err)
                                         ELSE <<>>
              read_calls == total_read_calls + reads
              a == read_call_accounting(read_calls, last_total_read_calls)
          IN  /\ read_calls <= MaxTotalReads
              /\ globals_reached => reads >= 1
              /\ settings_dirty' = u.settings_dirty
              /\ settings_visible' = u.settings_visible
              /\ foreign_tick' = tick
              /\ cs2_globals' = IF globals_read THEN g.cs2_globals ELSE cs2_globals
              /\ total_read_calls' = read_calls
              /\ frame_read_calls' = IF u.result = "Ok" THEN a.frame_read_calls
                                                        ELSE frame_read_calls
              /\ last_total_read_calls' = IF u.result = "Ok" THEN a.last_total_read_calls
                                                             ELSE last_total_read_calls
              /\ last_update' = Some([ result |-> u.result, globals_read |-> globals_read,
                                       updated |-> updated, reads |-> reads ])
    /\ app_pc' = "pre_update"
    /\ UNCHANGED <<pc, startup_log, main_result, update_fail_count, update_timeout,
                   fails_in_row, fails_counted, last_frame, last_pre_update>>
    /\ UNCHANGED <<resolveVars, cacheVars, decodeVars, ptrVars>>

NextApp ==
    \/ call_pre_update
    \/ call_update

SpecApp == Init /\ [][NextApp]_vars

(***************************************************************************)
(* The overlay frame loop: claims C1 - C6                                  *)
(***************************************************************************)
\* a step of the update callback (one frame)
FrameStep == pc = "update" /\ pc' # "update"

\* C1 (as claimed): a frame enters cool-down exactly when its update fails for the
\* 10th time in a row.
C1_TenthFailureInRowEntersCooldown ==
    [][ FrameStep =>
          ( Unwrap(last_frame').cooldown
              <=> ( Unwrap(last_frame').result = "Err"
                    /\ fails_in_row + 1 = 10 ) ) ]_vars

\* C1 (amended): a frame enters cool-down exactly when its update fails and it is
\* the 11th failure counted since the session start or the last cool-down entry
\* (10 failures were counted before it); that frame sets the 1000 ms cool-down and
\* no frame with fewer than 10 failures counted before it enters cool-down.
C1_EleventhCountedFailureEntersCooldown ==
    [][ FrameStep =>
          /\ Unwrap(last_frame').cooldown
               <=> ( Unwrap(last_frame').result = "Err"
                     /\ fails_counted = 10 )
          /\ Unwrap(last_frame').cooldown =>
               /\ update_timeout' = Some(<<0, 1000>>)
               /\ ~(fails_counted < 10) ]_vars

\* C1 witness: a cool-down has just been entered by a failed update
C1_Witness ==
    /\ IsSome(last_frame)
    /\ Unwrap(last_frame).cooldown
    /\ Unwrap(last_frame).result = "Err"
    /\ update_timeout = Some(<<0, CooldownMs>>)

\* C2: while a cool-down is active (timeout set, no more than 1000 ms elapsed) a
\* frame does not invoke Application::update: it changes nothing of the application
\* or of the failure counter.
C2_NoUpdateWhileCooldownActive ==
    [][ (FrameStep /\ IsSome(update_timeout) /\ Unwrap(update_timeout)[1] <= 1000) =>
          /\ ~Unwrap(last_frame').updated
          /\ Unwrap(last_frame').result = "none"
          /\ UNCHANGED <<update_fail_count, update_timeout, settings_dirty,
                         settings_visible, fails_counted>> ]_vars

\* C2 witness: a frame ran exactly 1000 ms into a cool-down and did not update
C2_Witness ==
    /\ IsSome(last_frame)
    /\ ~Unwrap(last_frame).updated
    /\ pc = "pre_update"
    /\ update_timeout = Some(<<1000, 1000>>)

\* C3 (as claimed): the counter counts consecutive failures only: after a frame
\* whose update succeeded the counter is 0.
C3_SuccessLeavesCounterZero ==
    (IsSome(last_frame) /\ Unwrap(last_frame).result = "Ok" /\ pc = "pre_update")
        => update_fail_count = 0

\* C4: the failure counter is 0 in every state where a cool-down is set, and at
\* the first Application::update invoked after it ends.
C4_CounterZeroThroughCooldown ==
    /\ IsSome(update_timeout) => update_fail_count = 0
    /\ (IsSome(last_frame) /\ Unwrap(last_frame).cleared) =>
          /\ Unwrap(last_frame).updated
          /\ Unwrap(last_frame).count_at_update = 0

\* C4 witness: the first update after a cool-down has run (and failed)
C4_Witness ==
    /\ IsSome(last_frame)
    /\ Unwrap(last_frame).cleared
    /\ Unwrap(last_frame).result = "Err"
    /\ update_fail_count = 1

\* C5: every frame callback returns true, whatever the update did, so the main
\* loop is not left after a frame.
C5_FrameAlwaysContinues ==
    /\ IsSome(last_frame) => Unwrap(last_frame).ret
    /\ IsSome(last_frame) => (pc \in {"pre_update", "update"} /\ main_result = None)

\* C5 witness: the loop goes on after the frame that started a cool-down
C5_Witness ==
    /\ IsSome(last_frame)
    /\ Unwrap(last_frame).cooldown
    /\ Unwrap(last_frame).ret
    /\ pc = "update"

\* the start-up steps of `log` that are among `steps`, in the order of the log
Restrict(log, steps) == SelectSeq(log, LAMBDA x : x \in steps)

\* C6: a failure of read_build_info, resolve_offsets or the schema dump is returned
\* by main_overlay and the frame loop is never entered; no Application::update is
\* invoked unless the three succeeded before it, in that order.
C6_StartupFailureIsFatal ==
    /\ (pc \in {"pre_update", "update"} \/ IsSome(last_frame)) =>
          Restrict(startup_log, {"read_build_info", "resolve_offsets", "dump_schema"})
              = <<"read_build_info", "resolve_offsets", "dump_schema">>
    /\ (pc = "returned" /\ Len(startup_log) < Len(StartupSteps)) =>
          /\ main_result = Some([ok |-> FALSE, err |-> StartupSteps[Len(startup_log) + 1]])
          /\ startup_log = SubSeq(StartupSteps, 1, Len(startup_log))
          /\ last_frame = None
    /\ \A step \in {"read_build_info", "resolve_offsets", "dump_schema"} :
          (IsSome(main_result) /\ Unwrap(main_result).err = step) =>
              /\ pc = "returned"
              /\ \A i \in 1..Len(startup_log) : startup_log[i] # step
              /\ last_frame = None

\* C6 witness: the schema dump failed and main_overlay returned its error
C6_Witness ==
    /\ pc = "returned"
    /\ main_result = Some([ok |-> FALSE, err |-> "dump_schema"])
    /\ last_frame = None

(***************************************************************************)
(* CS2RuntimeOffsets::resolve: claims C7, C8                               *)
(***************************************************************************)
\* member k of class j of scope i of the catalog carries the names of the triple
Names(off, i, j, k) ==
    /\ schema[i].schema_name = off.module
    /\ schema[i].classes[j].class_name = off.class
    /\ schema[i].classes[j].offsets[k].field_name = off.member

\* the positions of the catalog: scope i, class j of it, member k of that
Positions ==
    UNION { UNION { { <<i, j, k>> : k \in 1..Len(schema[i].classes[j].offsets) } :
                    j \in 1..Len(schema[i].classes) } :
            i \in 1..Len(schema) }

\* scope i is the first scope of its name, class j the first class of its name in it
FirstOfName(i, j) ==
    /\ \A i2 \in 1..(i - 1) : schema[i2].schema_name # schema[i].schema_name
    /\ \A j2 \in 1..(j - 1) :
          schema[i].classes[j2].class_name # schema[i].classes[j].class_name

\* C7 (as claimed): for every triple present in the catalog, resolve returns exactly
\* the offset recorded for that member in that class of that scope.
C7_PresentTripleResolves ==
    IsSome(offset) =>
        \A p \in Positions :
            Names(Unwrap(offset), p[1], p[2], p[3]) =>
                Unwrap(resolved) = Ok(schema[p[1]].classes[p[2]].offsets[p[3]].offset)

\* C7 (amended): for every triple present in the catalog in the first class of that
\* name of the first scope of that name, resolve returns exactly the offset recorded
\* there; this is every present triple when scope names are unique in the catalog
\* and class names are unique in a scope.
C7_FirstOfNameResolves ==
    IsSome(offset) =>
        \A p \in Positions :
            (Names(Unwrap(offset), p[1], p[2], p[3]) /\ FirstOfName(p[1], p[2])) =>
                /\ Unwrap(resolved).ok
                /\ Unwrap(resolved).value = schema[p[1]].classes[p[2]].offsets[p[3]].offset

\* C7 witness: the member was found in the second class of the second scope
C7_Witness ==
    /\ IsSome(offset)
    /\ Len(schema) = 2
    /\ Len(schema[2].classes) = 2
    /\ \E k \in 1..Len(schema[2].classes[2].offsets) :
          /\ Names(Unwrap(offset), 2, 2, k)
          /\ FirstOfName(2, 2)
          /\ Unwrap(resolved) = Ok(schema[2].classes[2].offsets[k].offset)

\* the scopes named as the triple's module, and the classes so named in the first
ScopesNamed(off) == { i \in 1..Len(schema) : schema[i].schema_name = off.module }
FirstScope(off) == schema[CHOOSE i \in ScopesNamed(off) : \A i2 \in ScopesNamed(off) : i <= i2]
ClassesNamed(off) ==
    { j \in 1..Len(FirstScope(off).classes) : FirstScope(off).classes[j].class_name = off.class }
FirstClass(off) ==
    FirstScope(off).classes[CHOOSE j \in ClassesNamed(off) : \A j2 \in ClassesNamed(off) : j <= j2]

\* a looked-up triple that is absent fails, with the kind of the level that misses
AbsentTripleFails ==
    (IsSome(offset) /\ ~\E p \in Positions : Names(Unwrap(offset), p[1], p[2], p[3])) =>
        LET off == Unwrap(offset)
            r == Unwrap(resolved)
        IN  /\ ~r.ok
            /\ r.err \in {"unknown module", "unknown class", "unknown class member"}
            /\ r.err = "unknown module" <=> ScopesNamed(off) = {}
            /\ r.err = "unknown class" <=> (ScopesNamed(off) # {} /\ ClassesNamed(off) = {})
            /\ r.err = "unknown class member" <=>
                  /\ ScopesNamed(off) # {}
                  /\ ClassesNamed(off) # {}
                  /\ \A k \in 1..Len(FirstClass(off).offsets) :
                        FirstClass(off).offsets[k].field_name # off.member

\* C8: for every triple absent from the catalog resolve fails, with the error of the
\* first level at which the lookup misses (unknown module, unknown class in the
\* scope found, unknown member in the class found); it returns no offset for an
\* absent triple and leaves the catalog as it was.
C8_AbsentTripleFailsAtFirstMiss ==
    [][ schema' = schema /\ AbsentTripleFails' ]_vars

\* C8 witness: m_iArmor is asked of a CBaseEntity that records only m_iHealth
C8_Witness ==
    /\ schema = << [ schema_name |-> "client.dll",
                     classes |-> << [ class_name |-> "CBaseEntity",
                                      offsets |-> << [ field_name |-> "m_iHealth",
                                                       offset |-> 836 ] >> ] >> ] >>
    /\ offset = Some([ module |-> "client.dll", class |-> "CBaseEntity", member |-> "m_iArmor" ])
    /\ resolved = Some(Err("unknown class member"))

(***************************************************************************)
(* EntryCache as used for class_name_cache and model_cache: claims C9, C10 *)
(***************************************************************************)
\* a step of get_or_insert on either cache
LookupStep == lookups' # lookups

\* the cache that a kept lookup went to, before and after the step
CacheOf(l) == IF l.cache = "model" THEN model_cache ELSE class_name_cache
CacheOfNext(l) == IF l.cache = "model" THEN model_cache' ELSE class_name_cache'

\* C9: once a factory call for key K has succeeded, every later get_or_insert(K)
\* returns the value cached then, without running the factory and without a foreign
\* read; the entry never changes and K's factory has succeeded exactly once.
C9_Memoization ==
    [][ LookupStep =>
          LET l == Unwrap(last_lookup')
          IN  /\ IsSome(CacheOf(l)[l.key]) =>
                    /\ l.ok
                    /\ l.value = Unwrap(CacheOf(l)[l.key])
                    /\ ~l.invoked
                    /\ l.reads = 0
              /\ \A k \in VTables :
                    IsSome(class_name_cache[k]) =>
                        /\ class_name_cache'[k] = class_name_cache[k]
                        /\ made["class_name"][k] = 1
                        /\ made'["class_name"][k] = 1
              /\ \A k \in Models :
                    IsSome(model_cache[k]) =>
                        /\ model_cache'[k] = model_cache[k]
                        /\ made["model"][k] = 1
                        /\ made'["model"][k] = 1 ]_vars

\* C9 witness: a class name was returned from the cache, the factory not run
C9_Witness ==
    /\ IsSome(last_lookup)
    /\ Unwrap(last_lookup).cache = "class_name"
    /\ ~Unwrap(last_lookup).invoked
    /\ Unwrap(last_lookup).ok
    /\ Unwrap(last_lookup).value = Some("C_CSPlayerPawn")
    /\ made["class_name"][Unwrap(last_lookup).key] = 1

\* C10: a get_or_insert(K) whose factory fails (a read of it faults) returns the
\* error, leaves both caches as they were with no entry for K, and the next
\* get_or_insert(K) runs the factory again.
C10_NoErrorPoisoning ==
    [][ LookupStep =>
          LET l == Unwrap(last_lookup')
          IN  /\ (l.faulted \/ (l.invoked /\ ~l.ok)) =>
                    /\ ~l.ok
                    /\ l.faulted
                    /\ class_name_cache' = class_name_cache
                    /\ model_cache' = model_cache
                    /\ ~IsSome(CacheOfNext(l)[l.key])
              /\ ( /\ IsSome(last_lookup)
                   /\ ~Unwrap(last_lookup).ok
                   /\ Unwrap(last_lookup).cache = l.cache
                   /\ Unwrap(last_lookup).key = l.key ) => l.invoked ]_vars

\* C10 witness: a vtable's decode faulted at the instruction read; no entry was made
C10_Witness ==
    /\ IsSome(last_lookup)
    /\ Unwrap(last_lookup).cache = "class_name"
    /\ Unwrap(last_lookup).faulted
    /\ ~Unwrap(last_lookup).ok
    /\ Unwrap(last_lookup).reads = 2
    /\ class_name_cache[Unwrap(last_lookup).key] = None

(***************************************************************************)
(* C11 - C12, C17: the class-name decode                                   *)
(***************************************************************************)
\* the decode that ran, and what it was given
DecodeRan == IsSome(decode_out)
DecodeView == decode_in.view
DecodeResult == Unwrap(decode_out)

\* both instruction reads returned, and bytes 9..11 are not 48 8D 15
PatternMismatch ==
    /\ IsSome(DecodeView.fn)
    /\ IsSome(DecodeView.asm)
    /\ SubSeq(Unwrap(DecodeView.asm), 10, 12) # <<72, 141, 21>>

\* one of the reads that the decode issued faulted
DecodeReadFaulted == \E i \in 1..DecodeResult.reads : ClassNameReadFaults(DecodeView, i)

\* C11: a decode that finds another instruction pattern at bytes 9..11 returns
\* successfully with "no name": it computes no descriptor address and issues no
\* name read; a decode fails exactly when one of its reads faults, so the two
\* outcomes differ.
C11_MismatchIsNoName ==
    DecodeRan =>
        /\ PatternMismatch =>
              /\ DecodeResult.ok
              /\ DecodeResult.value = None
              /\ DecodeResult.class_schema = None
              /\ DecodeResult.name_read = None
              /\ DecodeResult.reads = 2
        /\ DecodeResult.ok <=> ~DecodeReadFaulted

\* C11 witness: a decode of a near-miss pattern has run
C11_Witness ==
    /\ DecodeRan
    /\ PatternMismatch
    /\ Unwrap(DecodeView.asm)[10] = 72
    /\ Unwrap(DecodeView.asm)[11] = 141

\* lo <= address < hi as unsigned numbers
InRange(address, lo, hi) == ~LessLE(address, lo) /\ LessLE(address, hi)

\* C12: the name string is read only at the descriptor address + 8 of a descriptor
\* that lies in client.dll's mapped range; a decoded descriptor outside that range
\* gives "no name" and no name read.
C12_NameReadOnlyInsideClient ==
    DecodeRan =>
        /\ IsSome(DecodeResult.name_read) =>
              /\ IsSome(DecodeResult.class_schema)
              /\ InRange(Unwrap(DecodeResult.class_schema), ClientBase, ClientEnd)
        /\ IsSome(DecodeResult.value) => IsSome(DecodeResult.name_read)
        /\ ( /\ IsSome(DecodeResult.class_schema)
             /\ ~InRange(Unwrap(DecodeResult.class_schema), ClientBase, ClientEnd) ) =>
              /\ DecodeResult.ok
              /\ DecodeResult.value = None
              /\ DecodeResult.name_read = None
              /\ DecodeResult.reads = 2

\* C12 witness: a descriptor below client.dll was decoded and rejected
C12_Witness ==
    /\ DecodeRan
    /\ IsSome(DecodeResult.class_schema)
    /\ LessLE(Unwrap(DecodeResult.class_schema), ClientBase)
    /\ IsSome(DecodeView.name)

\* the four bytes b as a signed 32-bit number
SignedLE(b) ==
    b[1] + 256 * b[2] + 65536 * b[3]
        + 16777216 * (IF b[4] >= 128 THEN b[4] - 256 ELSE b[4])

\* a - b - borrow on little-endian bytes, the borrow out of the top byte dropped
RECURSIVE SubLE(_, _, _)
SubLE(a, b, borrow) ==
    IF a = <<>> THEN <<>>
    ELSE LET t == Head(a) - Head(b) - borrow
         IN  <<t % 256>> \o SubLE(Tail(a), Tail(b), IF t < 0 THEN 1 ELSE 0)

\* C17: the descriptor address is (routine address + signed displacement + 0x10)
\* mod 2^64, for every routine address and displacement: taking the routine
\* address and 0x10 away from it leaves the displacement as a 64-bit two's
\* complement number, and a displacement below -0x10 that does not wrap gives an
\* address below the routine.
C17_DescriptorAddress ==
    (DecodeRan /\ IsSome(DecodeResult.class_schema)) =>
        LET class_schema == Unwrap(DecodeResult.class_schema)
            fn == Unwrap(DecodeView.fn)
            displacement == SignedLE(SubSeq(Unwrap(DecodeView.asm), 13, 16))
        IN  /\ Len(class_schema) = 8
            /\ \A i \in 1..8 : class_schema[i] \in 0..255
            /\ SubLE(SubLE(class_schema, fn, 0), u64(16), 0) = ToLE(displacement, 8)
            /\ IF displacement < -16
                   THEN ~LessLE(fn, ToLE(-(displacement + 16), 8)) => LessLE(class_schema, fn)
                   ELSE TRUE

\* C17 witness: a negative displacement was decoded for a routine in client.dll
C17_Witness ==
    /\ DecodeRan
    /\ IsSome(DecodeResult.class_schema)
    /\ SignedLE(SubSeq(Unwrap(DecodeView.asm), 13, 16)) < -16
    /\ InRange(Unwrap(DecodeView.fn), ClientBase, ClientEnd)
    /\ LessLE(Unwrap(DecodeResult.class_schema), Unwrap(DecodeView.fn))

(***************************************************************************)
(* C18: PtrCStr::try_read_string                                           *)
(***************************************************************************)
\* C18: try_read_string on an address of 0 returns None and issues no string
\* read; on another address it succeeds exactly when read_string on the same
\* pointer succeeds, with Some of the same string; when the address cannot be
\* obtained both operations fail without a read.
C18_NullIsAbsence ==
    /\ IsSome(ptr_read) =>
          (~IsSome(ptr_in.address) => ~Unwrap(ptr_read).ok /\ Unwrap(ptr_read).reads = 0)
    /\ IsSome(ptr_try_read) =>
          LET t == Unwrap(ptr_try_read)
          IN  /\ ~IsSome(ptr_in.address) => ~t.ok /\ t.reads = 0
              /\ ptr_in.address = Some(u64(0)) => t.ok /\ t.value = None /\ t.reads = 0
              /\ ( /\ IsSome(ptr_in.address)
                   /\ ptr_in.address # Some(u64(0))
                   /\ IsSome(ptr_read) ) =>
                    LET r == Unwrap(ptr_read)
                    IN  /\ t.ok <=> r.ok
                        /\ t.reads = r.reads
                        /\ t.ok => t.value = Some(r.value)

\* C18 witness: both operations ran on a null pointer whose plain read faults
C18_Witness ==
    /\ IsSome(ptr_read)
    /\ IsSome(ptr_try_read)
    /\ ptr_in.address = Some(u64(0))
    /\ ~Unwrap(ptr_read).ok
    /\ Unwrap(ptr_try_read).ok

(***************************************************************************)
(* C13, C15, C16, C20: Application::pre_update and Application::update     *)
(***************************************************************************)
\* a step that is one Application::update call, and what the call did
UpdateCall == app_pc = "update" /\ app_pc' = "pre_update"
UpdateDone == Unwrap(last_update')

\* a step that is one Application::pre_update call, and what the call did
PreUpdateCall == app_pc = "pre_update" /\ app_pc' = "update"
PreUpdateDone == Unwrap(last_pre_update')

\* C13: every enhancement update of an Application::update call is given the
\* Globals as the foreign process holds them during that call, read in that call;
\* no enhancement is updated when the Globals read fails or is not reached, and
\* Application keeps no Globals from one call to the next.
C13_GlobalsFreshEveryFrame ==
    [][UpdateCall =>
        /\ \A i \in DOMAIN UpdateDone.updated :
              /\ UpdateDone.globals_read
              /\ UpdateDone.updated[i].globals = foreign_tick'
        /\ ~UpdateDone.globals_read => UpdateDone.updated = <<>>
        /\ cs2_globals' = None]_vars

\* C13 witness: enhancements were updated in a second frame, after the foreign
\* Globals had moved on twice
C13_Witness ==
    /\ IsSome(last_update)
    /\ Unwrap(last_update).globals_read
    /\ Len(Unwrap(last_update).updated) = NumEnhancements
    /\ foreign_tick = 2

\* C15: an Application::update call updates the enhancements in the order
\* PlayerESP, BombInfo, TriggerBot, AntiAimPunsh, each at most once; an update
\* that fails is the last one of the call and the call returns the failure; a
\* call that returns Ok has updated all four.
C15_EnhancementsInOrder ==
    [][UpdateCall =>
        LET updated == UpdateDone.updated
        IN  /\ Len(updated) <= Len(Enhancements)
            /\ \A i \in DOMAIN updated : updated[i].enhancement = Enhancements[i]
            /\ \A i, j \in DOMAIN updated :
                  updated[i].enhancement = updated[j].enhancement => i = j
            /\ \A i \in DOMAIN updated :
                  ~updated[i].ok => i = Len(updated) /\ UpdateDone.result = "Err"
            /\ UpdateDone.result = "Ok" =>
                  /\ Len(updated) = Len(Enhancements)
                  /\ \A i \in DOMAIN updated : updated[i].ok]_vars

\* C15 witness: the update of the second enhancement failed
C15_Witness ==
    /\ IsSome(last_update)
    /\ Len(Unwrap(last_update).updated) = 2
    /\ ~Unwrap(last_update).updated[2].ok

\* C16: after an Application::update call that returned Ok, frame_read_calls is
\* the number of read calls made during that call, and last_total_read_calls never
\* exceeds the accessor's counter.
C16_FrameReadCallsOfThisCall ==
    [][UpdateCall =>
        /\ last_total_read_calls' <= total_read_calls'
        /\ UpdateDone.result = "Ok" => frame_read_calls' = UpdateDone.reads]_vars

\* C20: pre_update attempts a save exactly when settings_dirty is set, leaves the
\* flag cleared whether the save succeeds or not, and returns Ok; an update call
\* that takes the settings window from visible to hidden leaves the flag set.
C20_SettingsSavedOncePerDirtyPeriod ==
    [][ /\ PreUpdateCall =>
              /\ PreUpdateDone.save_attempted <=> settings_dirty
              /\ PreUpdateDone.saved => PreUpdateDone.save_attempted
              /\ PreUpdateDone.result = "Ok"
              /\ settings_dirty' = FALSE
        /\ UpdateCall =>
              ((settings_visible /\ ~settings_visible') => settings_dirty')]_vars

\* C20 witness: a save was attempted and failed, and the flag is cleared
C20_Witness ==
    /\ app_pc = "update"
    /\ IsSome(last_pre_update)
    /\ Unwrap(last_pre_update).save_attempted
    /\ ~Unwrap(last_pre_update).saved
    /\ ~settings_dirty
    /\ ~settings_visible

(***************************************************************************)
(* C14, C19: the update callback                                           *)
(***************************************************************************)
\* C14: with frames delivered and the clock advancing, a cool-down that is set
\* leads to a frame that clears it and calls Application::update.
C14_CooldownEnds ==
    IsSome(update_timeout) ~>
        ( /\ update_timeout = None
          /\ IsSome(last_frame)
          /\ Unwrap(last_frame).cleared
          /\ Unwrap(last_frame).updated )

\* C14 witness: a frame has cleared a cool-down and updated
C14_Witness ==
    /\ update_timeout = None
    /\ IsSome(last_frame)
    /\ Unwrap(last_frame).cleared
    /\ Unwrap(last_frame).updated

\* C19: a frame renders exactly when no cool-down is set at its end, that is, not
\* in a cool-down frame and not in the frame that starts the cool-down; a frame
\* that renders has called Application::update before.
C19_RenderExceptInCooldown ==
    [][FrameStep =>
        /\ Unwrap(last_frame').rendered <=> update_timeout' = None
        /\ Unwrap(last_frame').rendered => Unwrap(last_frame').updated]_vars

\* C19 witness: the frame that started a cool-down did not render
C19_Witness ==
    /\ IsSome(last_frame)
    /\ Unwrap(last_frame).updated
    /\ Unwrap(last_frame).cooldown
    /\ ~Unwrap(last_frame).rendered


====
